---- MODULE Spec2Model ----
(***************************************************************************)
(* Model of the block pool of sim1 (storage.Memory / memory.Memory), its   *)
(* fit selectors, fragmentation measure and the FirstFit / BestFit         *)
(* allocators.  Arrays are functions over 0 .. n-1, exactly the indices    *)
(* the Python code uses; Python lists of arrays (the regions returned by   *)
(* contiguous) are sequences of sequences.                                 *)
(***************************************************************************)
EXTENDS Integers, Sequences, FiniteSets, TLC

\* ---------------------------------------------------------------- bounds
MaxBlocks == 4
MaxPage == 2
\* the pools handed to an allocator or a defragmentor
MaxAllocBlocks == 3
\* the pools and the step counts of a simulation run
MaxSimBlocks == 3
MaxSteps == 2
\* the blocks allocated at a time in the pool that argsort partitions
MaxBigAllocated == 1

\* ------------------------------------------------------ program constants
\* sample_page draws from rng.integers(1, 21): 1 .. 20 inclusive
PageLow == 1
PageHigh == 20
\* NO_BLOCK = None; None is modelled by a value no index or page count takes
NO_BLOCK == -1
\* the None of an optional pair (Result.after)
NoPages == <<>>

VARIABLES blocks, pages, available, threshold, stream, sim, dp, simulation, last

vars == <<blocks, pages, available, threshold, stream, sim, dp, simulation, last>>

\* -------------------------------------------------------- numpy helpers
ToArray(s) == [i \in 0 .. Len(s) - 1 |-> s[i + 1]]

Size(arr) == Cardinality(DOMAIN arr)

RECURSIVE SumSeq(_)
SumSeq(s) == IF Len(s) = 0 THEN 0 ELSE s[1] + SumSeq(Tail(s))

RECURSIVE MaxSeq(_)
MaxSeq(s) ==
  IF Len(s) = 1 THEN s[1]
  ELSE LET m == MaxSeq(Tail(s)) IN IF s[1] >= m THEN s[1] ELSE m

\* np.flatnonzero(mask): the ascending indices at which mask is true
RECURSIVE FlatnonzeroFrom(_, _)
FlatnonzeroFrom(mask, i) ==
  IF i >= Size(mask) THEN <<>>
  ELSE (IF mask[i] THEN <<i>> ELSE <<>>) \o FlatnonzeroFrom(mask, i + 1)

Flatnonzero(mask) == FlatnonzeroFrom(mask, 0)

\* arr[indices] for an index array
Take(arr, indices) == [k \in 1 .. Len(indices) |-> arr[indices[k]]]

\* np.diff taking every difference from the first element
Diff_from_first(s) == IF Len(s) = 0 THEN <<>> ELSE [k \in 1 .. Len(s) - 1 |-> s[k + 1] - s[1]]

\* np.diff
Diff(s) == IF Len(s) = 0 THEN <<>> ELSE [k \in 1 .. Len(s) - 1 |-> s[k + 1] - s[k]]

\* np.split(s, points): s[:p1], s[p1:p2], ..., s[pk:]
NpSplit(s, points) ==
  [k \in 1 .. Len(points) + 1 |->
     LET lo == IF k = 1 THEN 0 ELSE points[k - 1]
         hi == IF k = Len(points) + 1 THEN Len(s) ELSE points[k]
     IN SubSeq(s, lo + 1, hi)]

InSeq(x, s) == \E k \in 1 .. Len(s) : s[k] = x

\* ---------------------------------------------------- storage.Memory
\* Memory.get_free
get_free(av) == Flatnonzero(av)

\* Memory.get_allocated
get_allocated(av) == Flatnonzero([i \in DOMAIN av |-> ~av[i]])

\* Memory.num_blocks_free: sum(self.available)
num_blocks_free(av) == SumSeq([k \in 1 .. Size(av) |-> IF av[k - 1] THEN 1 ELSE 0])

\* Memory.num_blocks_allocated: self.available.size - self.num_blocks_free
num_blocks_allocated(av) == Size(av) - num_blocks_free(av)

\* Memory.num_pages_free: sum(self.pages[self.available])
num_pages_free(pg, av) == SumSeq(Take(pg, Flatnonzero(av)))

\* contiguous() splitting at split_at instead of split_at + 1
contiguous_split_early(av) ==
  LET free == Flatnonzero(av)
      d == Diff(free)
      split_at == Flatnonzero(ToArray([k \in 1 .. Len(d) |-> d[k] # 1]))
  IN NpSplit(free, split_at)

\* Memory.contiguous(): the list of index arrays; one empty array when no
\* block is free (np.split of an empty array)
contiguous(av) ==
  LET free == Flatnonzero(av)
      d == Diff(free)
      split_at == Flatnonzero(ToArray([k \in 1 .. Len(d) |-> d[k] # 1]))
  IN NpSplit(free, [k \in 1 .. Len(split_at) |-> split_at[k] + 1])

\* Memory.contiguous(with_pages=True)[1]
contiguous_pages(pg, av) ==
  LET c == contiguous(av) IN [k \in 1 .. Len(c) |-> SumSeq(Take(pg, c[k]))]

\* fragmented() dividing by the largest region instead of the free total
fragmented_over_max(pg, av, as_pages) ==
  LET num_free == IF as_pages THEN num_pages_free(pg, av) ELSE num_blocks_free(av)
      max_free == IF as_pages
                  THEN MaxSeq(contiguous_pages(pg, av))
                  ELSE LET groups == contiguous(av)
                       IN MaxSeq([k \in 1 .. Len(groups) |-> Len(groups[k])])
  IN IF num_free = 0 THEN <<0, 1>> ELSE <<num_free - max_free, max_free>>

\* Memory.fragmented: the quotient is kept exact as <<numerator, denominator>>
fragmented(pg, av, as_pages) ==
  LET num_free == IF as_pages THEN num_pages_free(pg, av) ELSE num_blocks_free(av)
      max_free == IF as_pages
                  THEN MaxSeq(contiguous_pages(pg, av))
                  ELSE LET groups == contiguous(av)
                       IN MaxSeq([k \in 1 .. Len(groups) |-> Len(groups[k])])
  IN IF num_free = 0 THEN <<0, 1>> ELSE <<num_free - max_free, num_free>>

\* arr[b]; the index None is numpy's newaxis and yields the whole array
\* wrapped in one more dimension
item(arr, b) == IF b = NO_BLOCK THEN <<arr>> ELSE arr[b]

\* get_num_pages() reading the page count of block 0
get_num_pages_of_first(pg, b) == pg[0]

\* Memory.get_num_pages
get_num_pages(pg, b) == item(pg, b)

\* np.cumsum(self.pages)
cumsum(pg) == [i \in DOMAIN pg |-> SumSeq([k \in 1 .. i + 1 |-> pg[k - 1]])]

\* Memory.get_page_address: (np.cumsum(self.pages) - self.pages[0])[b]
get_page_address(pg, b) == item([i \in DOMAIN pg |-> cumsum(pg)[i] - pg[0]], b)

\* first_fit() that forgets the availability mask
first_fit_any_block(pg, av, b) ==
  LET choices == [i \in DOMAIN pg |-> pg[i] >= pg[b]]
      nz == Flatnonzero(choices)
  IN IF Len(nz) = 0 THEN NO_BLOCK ELSE nz[1]

\* Memory.first_fit: min(np.flatnonzero(choices), default=None)
first_fit(pg, av, b) ==
  LET choices == [i \in DOMAIN pg |-> av[i] /\ pg[i] >= pg[b]]
      nz == Flatnonzero(choices)
  IN IF Len(nz) = 0 THEN NO_BLOCK ELSE nz[1]

\* stands for np.inf: larger than every pages[i] - pages[b] + 1
Inf == PageHigh - PageLow + 2

\* argmin() returning the last index holding the least value
argmin_last(arr) ==
  CHOOSE i \in DOMAIN arr :
    /\ \A j \in DOMAIN arr : arr[i] <= arr[j]
    /\ \A j \in DOMAIN arr : j > i => arr[j] > arr[i]

\* ndarray.argmin(): the first index holding the least value
argmin(arr) ==
  CHOOSE i \in DOMAIN arr :
    /\ \A j \in DOMAIN arr : arr[i] <= arr[j]
    /\ \A j \in DOMAIN arr : j < i => arr[j] > arr[i]

\* best_fit() without the + 1 in diff: an exact fit counts as no fit
best_fit_exact_lost(pg, av, b) ==
  LET diff == [i \in DOMAIN pg |-> pg[i] - pg[b]]
      choices == [i \in DOMAIN pg |->
                    IF av[i] /\ pg[i] >= pg[b] THEN diff[i] ELSE 0]
  IN IF Size(choices) > 0
     THEN argmin([i \in DOMAIN pg |-> IF choices[i] > 0 THEN choices[i] ELSE Inf])
     ELSE NO_BLOCK

\* Memory.best_fit
best_fit(pg, av, b) ==
  LET diff == [i \in DOMAIN pg |-> pg[i] - pg[b] + 1]
      choices == [i \in DOMAIN pg |->
                    IF av[i] /\ pg[i] >= pg[b] THEN diff[i] ELSE 0]
  IN IF Size(choices) > 0
     THEN argmin([i \in DOMAIN pg |-> IF choices[i] > 0 THEN choices[i] ELSE Inf])
     ELSE NO_BLOCK

\* ndarray.argsort() with the default kind ("quicksort"): numpy's aquicksort
\* on the index array t, keys v.  A range of more than SMALL_QUICKSORT + 1
\* elements is partitioned around the median of three, a shorter one is
\* sorted by insertion.  (The heapsort fallback needs a recursion depth no
\* pool of this size reaches.)
SMALL_QUICKSORT == 16

\* npy bool less-than: False < True
less(a, b) == ~a /\ b

swap(t, i, j) == [t EXCEPT ![i] = t[j], ![j] = t[i]]

\* do { ++pi; } while (less(v[*pi], vp)), entered at the incremented pi
RECURSIVE scan_up(_, _, _, _)
scan_up(v, t, pi, vp) ==
  IF less(v[t[pi]], vp) THEN scan_up(v, t, pi + 1, vp) ELSE pi

\* do { --pj; } while (less(vp, v[*pj])), entered at the decremented pj
RECURSIVE scan_down(_, _, _, _)
scan_down(v, t, pj, vp) ==
  IF less(vp, v[t[pj]]) THEN scan_down(v, t, pj - 1, vp) ELSE pj

\* the for (;;) loop of the partition: <<t, pi>> when it breaks
RECURSIVE hoare(_, _, _, _, _)
hoare(v, t, pi, pj, vp) ==
  LET i2 == scan_up(v, t, pi + 1, vp)
      j2 == scan_down(v, t, pj - 1, vp)
  IN IF i2 >= j2 THEN <<t, i2>> ELSE hoare(v, swap(t, i2, j2), i2, j2, vp)

\* one quicksort partition of t[pl .. pr]: <<t, pi>>, pi the pivot's place
partition(v, t, pl, pr) ==
  LET pm == pl + ((pr - pl) \div 2)
      t1 == IF less(v[t[pm]], v[t[pl]]) THEN swap(t, pm, pl) ELSE t
      t2 == IF less(v[t1[pr]], v[t1[pm]]) THEN swap(t1, pr, pm) ELSE t1
      t3 == IF less(v[t2[pm]], v[t2[pl]]) THEN swap(t2, pm, pl) ELSE t2
      vp == v[t3[pm]]
      t4 == swap(t3, pm, pr - 1)
      h == hoare(v, t4, pl, pr - 1, vp)
  IN <<swap(h[1], h[2], pr - 1), h[2]>>

\* while (pj > pl && less(vp, v[*pk])) *pj-- = *pk--;  *pj = vi
RECURSIVE shift(_, _, _, _, _)
shift(v, t, pl, pj, vi) ==
  IF pj > pl /\ less(v[vi], v[t[pj - 1]])
  THEN shift(v, [t EXCEPT ![pj] = t[pj - 1]], pl, pj - 1, vi)
  ELSE [t EXCEPT ![pj] = vi]

\* the insertion sort of t[pl .. pr], from position pi on
RECURSIVE insertion(_, _, _, _, _)
insertion(v, t, pl, pr, pi) ==
  IF pi > pr THEN t ELSE insertion(v, shift(v, t, pl, pi, t[pi]), pl, pr, pi + 1)

\* the outer loop with its stack of pending ranges
RECURSIVE aquicksort(_, _, _, _, _)
aquicksort(v, t, pl, pr, stack) ==
  IF pr - pl > SMALL_QUICKSORT
  THEN LET p == partition(v, t, pl, pr)
           pi == p[2]
       IN IF pi - pl < pr - pi
          THEN aquicksort(v, p[1], pl, pi - 1, Append(stack, <<pi + 1, pr>>))
          ELSE aquicksort(v, p[1], pi + 1, pr, Append(stack, <<pl, pi - 1>>))
  ELSE LET sorted == insertion(v, t, pl, pr, pl + 1)
       IN IF Len(stack) = 0 THEN sorted
          ELSE LET top == stack[Len(stack)]
               IN aquicksort(v, sorted, top[1], top[2],
                             SubSeq(stack, 1, Len(stack) - 1))

\* self.available.argsort(): the sorting indices as a sequence
argsort(av) ==
  LET n == Size(av)
      t == aquicksort(av, [i \in 0 .. n - 1 |-> i], 0, n - 1, <<>>)
  IN [k \in 1 .. n |-> t[k - 1]]

\* defragment() that leaves the availability array in its old order
defragment_available_kept(av) == av

\* Memory.defragment: both arrays indexed by the same argsort
defragment_available(av) == ToArray(Take(av, argsort(av)))

defragment_pages(pg, av) == ToArray(Take(pg, argsort(av)))

\* np.argmax of a list of booleans: the first True, 0 when none is True
\* (positions of the Python list are 0-based, of the sequence 1-based)
argmax(bools) ==
  IF \E k \in 1 .. Len(bools) : bools[k]
  THEN (CHOOSE k \in 1 .. Len(bools) :
          bools[k] /\ \A j \in 1 .. k - 1 : ~bools[j]) - 1
  ELSE 0

\* self.available[:b + 1] = False: a slice where one index was meant
set_false_slice(av, b) ==
  IF b = NO_BLOCK THEN [i \in DOMAIN av |-> FALSE]
  ELSE [i \in DOMAIN av |-> IF i <= b THEN FALSE ELSE av[i]]

\* self.available[b] = False; the index None is numpy's newaxis, so the
\* assignment broadcasts over the whole array
set_false(av, b) ==
  IF b = NO_BLOCK THEN [i \in DOMAIN av |-> FALSE] ELSE [av EXCEPT ![b] = FALSE]

\* the right part taken from idx instead of idx + 1: it counts block b
split_sums_with_b(p, idx) ==
  <<SumSeq(SubSeq(p, 1, idx)), SumSeq(SubSeq(p, idx + 1, Len(p)))>>

\* (sum(pages[:idx]), sum(pages[idx + 1:])) for the 0-based idx
split_sums(p, idx) ==
  <<SumSeq(SubSeq(p, 1, idx)), SumSeq(SubSeq(p, idx + 2, Len(p)))>>

\* Memory.allocate given the list of regions; raised names the exception the
\* call ends with ("" when it returns), available the array afterwards
allocate_in(regions, pg, av, b) ==
  LET chunk == argmax([k \in 1 .. Len(regions) |-> InSeq(b, regions[k])])
      selected == regions[chunk + 1]
      hit == Flatnonzero(ToArray([k \in 1 .. Len(selected) |-> selected[k] = b]))
  IN IF Len(selected) > 1
     THEN IF Len(hit) # 1
          THEN [raised |-> "ValueError", before |-> NO_BLOCK, after |-> NoPages,
                available |-> av]
          ELSE LET idx == hit[1]
                   p == Take(pg, selected)
               IN [raised |-> "",
                   before |-> SumSeq(p),
                   after |-> split_sums(p, idx),
                   available |-> set_false(av, b)]
     ELSE IF Len(selected) # 1
          THEN [raised |-> "ValueError", before |-> NO_BLOCK, after |-> NoPages,
                available |-> av]
          ELSE [raised |-> "",
                before |-> pg[selected[1]],
                after |-> NoPages,
                available |-> set_false(av, b)]

\* storage.Memory.allocate
allocate(pg, av, b) == allocate_in(contiguous(av), pg, av, b)

\* free() that flips the flag instead of setting it
free_toggle(av, b) == [av EXCEPT ![b] = ~av[b]]

\* Memory.free
free(av, b) == [av EXCEPT ![b] = TRUE]

\* reset() leaving block 0 as it was allocated
reset_but_first(n) == [i \in 0 .. n - 1 |-> i # 0]

\* reset() building an array one element short
reset_short(n) == [i \in 0 .. n - 2 |-> TRUE]

\* Memory.reset: np.ones(self.blocks, dtype=bool)
reset(n) == [i \in 0 .. n - 1 |-> TRUE]

\* ------------------------------------------- storage.ThresholdDefragmentor
\* a threshold is the exact quotient <<numerator, denominator>>; no
\* defragmentor has been constructed yet
NoDefragmentor == <<>>

\* the default of the threshold attribute, 0.5
DefaultThreshold == <<1, 2>>

\* _check_threshold with the bounds excluded: 0 < value < 1
check_threshold_open(value) == 0 < value[1] /\ value[1] < value[2]

\* ThresholdDefragmentor._check_threshold passes: 0 <= value <= 1
check_threshold(value) == 0 <= value[1] /\ value[1] <= value[2]

\* the test of call() with > where the code has >=
reaches_strict(f, th) == f[1] * th[2] > th[1] * f[2]

\* self.memory.fragmented() >= self.threshold
reaches(f, th) == f[1] * th[2] >= th[1] * f[2]

\* ------------------------------------------------------------ the pool
\* pools of the scenarios the documentation walks through
ScenarioPages == {<<5, 10, 5, 20>>, <<1, 2, 1, 2, 1>>}

Blocks == 0 .. blocks - 1

\* what the last call was, what it returned, and the pool it was made on
Call(op, arg, val, raised) ==
  [op |-> op, arg |-> arg, val |-> val, raised |-> raised,
   pages |-> pages, available |-> available, std_out |-> FALSE, printed |-> <<>>]

\* no call is outstanding: the caller holds no result
NoCall(pg, av) ==
  [op |-> "none", arg |-> NO_BLOCK, val |-> NO_BLOCK, raised |-> "",
   pages |-> pg, available |-> av, std_out |-> FALSE, printed |-> <<>>]

\* Simulator.run has not been called
NoRun ==
  [pc |-> "idle", steps |-> 0, i |-> 0, request |-> NO_BLOCK, policy |-> "",
   recorder |-> FALSE, taken |-> 0, recorded |-> 0, allocated |-> 0,
   defragmented |-> 0]

\* no DiningTable has been built
NoTable == [chopsticks |-> <<>>, philosophers |-> <<>>]

\* Philosopher(state, time): right_chop and left_chop default to -1
Philosopher(state, time) ==
  [state |-> state, time |-> time, right_chop |-> -1, left_chop |-> -1]

\* no Simulation has been built; who, before, picked, checked and after
\* record the last turn and the last end of a time step
NoSimulation ==
  [pc |-> "idle", n |-> 0, time |-> 0, deadlock |-> FALSE, recovery |-> 0,
   eat_function |-> 0, t |-> 0, phil_id |-> 0, who |-> -1,
   before |-> Philosopher("THINKING", 0), picked |-> "none",
   checked |-> "none", after |-> "none"]

Ready == last.op = "none"

\* Memory.__attrs_post_init__ for a pool of at most max blocks
Construct(max) ==
  /\ \/ /\ blocks \in 1 .. max
        /\ pages \in [0 .. blocks - 1 -> PageLow .. MaxPage]
     \/ \E s \in ScenarioPages :
          /\ blocks = Len(s)
          /\ pages = ToArray(s)
  /\ available = [i \in 0 .. blocks - 1 |-> TRUE]
  /\ threshold = NoDefragmentor
  /\ stream = [i \in 0 .. blocks - 1 |-> TRUE]
  /\ sim = NoRun
  /\ dp = NoTable
  /\ simulation = NoSimulation
  /\ last = NoCall(pages, available)

Init == Construct(MaxBlocks)

Allocate(b) ==
  /\ Ready
  /\ \E r \in {allocate(pages, available, b)} :
       /\ available' = r.available
       /\ last' = Call("allocate", b, <<r.before, r.after>>, r.raised)
  /\ UNCHANGED <<blocks, pages, threshold, stream, sim, dp, simulation>>

Free(b) ==
  /\ Ready
  /\ available' = free(available, b)
  /\ last' = Call("free", b, NO_BLOCK, "")
  /\ UNCHANGED <<blocks, pages, threshold, stream, sim, dp, simulation>>

Defragment ==
  /\ Ready
  /\ available' = defragment_available(available)
  /\ pages' = defragment_pages(pages, available)
  /\ last' = Call("defragment", NO_BLOCK, NO_BLOCK, "")
  /\ UNCHANGED <<blocks, threshold, stream, sim, dp, simulation>>

Reset ==
  /\ Ready
  /\ available' = reset(blocks)
  /\ last' = Call("reset", NO_BLOCK, NO_BLOCK, "")
  /\ UNCHANGED <<blocks, pages, threshold, stream, sim, dp, simulation>>

FirstFit(b) ==
  /\ Ready
  /\ last' = Call("first_fit", b, first_fit(pages, available, b), "")
  /\ UNCHANGED <<blocks, pages, available, threshold, stream, sim, dp, simulation>>

BestFit(b) ==
  /\ Ready
  /\ last' = Call("best_fit", b, best_fit(pages, available, b), "")
  /\ UNCHANGED <<blocks, pages, available, threshold, stream, sim, dp, simulation>>

Fragmented(as_pages) ==
  /\ Ready
  /\ last' = Call("fragmented", as_pages, fragmented(pages, available, as_pages), "")
  /\ UNCHANGED <<blocks, pages, available, threshold, stream, sim, dp, simulation>>

Contiguous ==
  /\ Ready
  /\ last' = Call("contiguous", NO_BLOCK, contiguous(available), "")
  /\ UNCHANGED <<blocks, pages, available, threshold, stream, sim, dp, simulation>>

GetPageAddress(b) ==
  /\ Ready
  /\ last' = Call("get_page_address", b, get_page_address(pages, b), "")
  /\ UNCHANGED <<blocks, pages, available, threshold, stream, sim, dp, simulation>>

\* the thresholds a defragmentor is constructed with, in and out of range
Thresholds == {<<-1, 2>>, <<0, 1>>, DefaultThreshold, <<1, 1>>, <<3, 2>>}

\* ThresholdDefragmentor(memory, threshold): the validator raises ValueError
\* and no object comes to exist, or the (frozen) defragmentor is there
NewThresholdDefragmentor(value) ==
  /\ Ready
  /\ threshold = NoDefragmentor
  /\ IF check_threshold(value)
     THEN /\ threshold' = value
          /\ last' = Call("ThresholdDefragmentor", value, value, "")
     ELSE /\ threshold' = threshold
          /\ last' = Call("ThresholdDefragmentor", value, NoDefragmentor, "ValueError")
  /\ UNCHANGED <<blocks, pages, available, stream, sim, dp, simulation>>

\* ThresholdDefragmentor.call
DefragmentorCall ==
  /\ Ready
  /\ threshold # NoDefragmentor
  /\ IF reaches(fragmented(pages, available, FALSE), threshold)
     THEN /\ available' = defragment_available(available)
          /\ pages' = defragment_pages(pages, available)
     ELSE UNCHANGED <<pages, available>>
  /\ last' = Call("defragmentor", threshold, NO_BLOCK, "")
  /\ UNCHANGED <<blocks, threshold, stream, sim, dp, simulation>>

\* the caller has taken the result (or caught the exception) of its call
\* and is ready to make the next one
Return ==
  /\ ~Ready
  /\ last' = NoCall(pages, available)
  /\ UNCHANGED <<blocks, pages, available, threshold, stream, sim, dp, simulation>>

\* ------------------------------------------------------ memory.Memory
\* the None that memory.Memory.contiguous returns; np.split never returns
\* an empty list, so the empty sequence is free to stand for it
NoRegions == <<>>

\* memory.Memory.contiguous(): None when no block is free
mem_contiguous(av) ==
  LET c == contiguous(av)
  IN IF Len(c) = 1 /\ Len(c[1]) = 0 THEN NoRegions ELSE c

\* itertools.groupby(self.available): the lengths of the runs of equal
\* values, of free and of allocated blocks alike, from position i on
RECURSIVE groupby(_, _)
groupby(av, i) ==
  IF i >= Size(av) THEN <<>>
  ELSE LET rest == groupby(av, i + 1)
       IN IF i + 1 < Size(av) /\ av[i + 1] = av[i]
          THEN <<rest[1] + 1>> \o Tail(rest)
          ELSE <<1>> \o rest

\* memory.Memory.fragmented (a property), the quotient kept exact
mem_fragmented(av) ==
  LET max_free == MaxSeq(groupby(av, 0))
      num_free == num_blocks_free(av)
  IN IF num_free = 0 THEN <<0, 1>> ELSE <<num_free - max_free, num_free>>

\* the fragmented property read on a memory.Memory with the same arrays
MemFragmented ==
  /\ Ready
  /\ last' = Call("memory.fragmented", NO_BLOCK, mem_fragmented(available), "")
  /\ UNCHANGED <<blocks, pages, available, threshold, stream, sim, dp, simulation>>

\* memory.Memory.allocate: iterating over None raises TypeError
mem_allocate(pg, av, b) ==
  IF mem_contiguous(av) = NoRegions
  THEN [raised |-> "TypeError", before |-> NO_BLOCK, after |-> NoPages,
        available |-> av]
  ELSE allocate_in(mem_contiguous(av), pg, av, b)

\* ---------------------------------------------------------- allocation
\* requests.Request, requests.RequestType and requests.Result as
\* allocation.py uses them: a request is its rtype and its block (a pair of
\* blocks for ME_TOO), a result the six keyword fields of Result(...)
RequestTypes == {"ALLOCATE", "FREE", "ME_TOO"}

Request(rtype, block) == [rtype |-> rtype, block |-> block]

\* a Result whose start field repeats the block
Result_start_is_block(success, block, pgs, start, before, after) ==
  [success |-> success, block |-> block, pages |-> pgs, start |-> block,
   before |-> before, after |-> after]

Result(success, block, pgs, start, before, after) ==
  [success |-> success, block |-> block, pages |-> pgs, start |-> start,
   before |-> before, after |-> after]

\* the fit selector of the allocator class
select_fit(policy, pg, av, b) ==
  IF policy = "FirstFit" THEN first_fit(pg, av, b) ELSE best_fit(pg, av, b)

\* FirstFit.call / BestFit.call on the allocator's memory.Memory:
\* the exception it ends with, the Result it returns, the pool afterwards
call(policy, pg, av, request) ==
  IF request.rtype = "FREE"
  THEN [raised |-> "",
        result |-> Result(TRUE, request.block, get_num_pages(pg, request.block),
                          NO_BLOCK, NO_BLOCK, NoPages),
        available |-> free(av, request.block)]
  ELSE LET target == IF request.rtype = "ALLOCATE"
                     THEN request.block ELSE request.block[1]
           fit == select_fit(policy, pg, av, target)
           start == get_page_address(pg, fit)
           r == mem_allocate(pg, av, fit)
       IN IF r.raised # ""
          THEN [raised |-> r.raised, result |-> NO_BLOCK, available |-> av]
          ELSE [raised |-> "",
                result |-> Result(TRUE, fit, get_num_pages(pg, fit), start,
                                  r.before, r.after),
                available |-> r.available]

\* the requests an allocator can be handed for a pool of n blocks
Requests(n) ==
  {Request(t, b) : t \in {"ALLOCATE", "FREE"}, b \in 0 .. n - 1}
    \cup {Request("ME_TOO", <<a, b>>) : a \in 0 .. n - 1, b \in 0 .. n - 1}

\* sample_block() drawing from every block, whatever its availability
sample_block_any(av, allocated) == {i : i \in DOMAIN av}

\* RequestStream.sample_block(allocated=...): the blocks the generator may
\* draw, NO_BLOCK when the pool it draws from is empty
sample_block(av, allocated) ==
  LET pool == Flatnonzero([i \in DOMAIN av |-> IF allocated THEN ~av[i] ELSE av[i]])
  IN IF Len(pool) < 1 THEN {NO_BLOCK} ELSE {pool[k] : k \in 1 .. Len(pool)}

\* RequestStream.me_too: the pairs it may return, (allocated, to_allocate);
\* the availability it samples from is that of the pool at sampling time
me_too(av) ==
  {<<allocated, to_allocate>> :
     allocated \in sample_block(av, TRUE), to_allocate \in sample_block(av, FALSE)}

\* the coin of sample_allocate / sample_free / sample_me_too: no coin is
\* thrown (the result is False) when a sampled block is NO_BLOCK
Coin(sampled) == IF NO_BLOCK \in sampled THEN {FALSE} ELSE BOOLEAN

\* RequestStream.allocate: every (block, result) it may return, with the
\* generator's available array afterwards
stream_allocate(sav) ==
  UNION {{[rtype |-> "ALLOCATE", block |-> block, result |-> result,
           available |-> IF result THEN [sav EXCEPT ![block] = FALSE] ELSE sav] :
            result \in Coin({block})} :
         block \in sample_block(sav, FALSE)}

\* RequestStream.free
stream_free(sav) ==
  UNION {{[rtype |-> "FREE", block |-> block, result |-> result,
           available |-> IF result THEN [sav EXCEPT ![block] = TRUE] ELSE sav] :
            result \in Coin({block})} :
         block \in sample_block(sav, TRUE)}

\* RequestStream.me_too
stream_me_too(sav) ==
  UNION {{[rtype |-> "ME_TOO", block |-> block, result |-> result,
           available |-> IF result THEN [sav EXCEPT ![block[2]] = FALSE] ELSE sav] :
            result \in Coin({block[1], block[2]})} :
         block \in me_too(sav)}

\* RequestStream.sample_request: the request callables it may choose
sample_request(sav) ==
  IF \A i \in DOMAIN sav : sav[i] THEN {"ALLOCATE"}
  ELSE IF ~ \E i \in DOMAIN sav : sav[i] THEN {"FREE"}
  ELSE {"ALLOCATE", "FREE", "ME_TOO"}

\* request() for the callable sample_request chose
stream_request(rtype, sav) ==
  IF rtype = "ALLOCATE" THEN stream_allocate(sav)
  ELSE IF rtype = "FREE" THEN stream_free(sav)
  ELSE stream_me_too(sav)

\* a direct call of stream.allocate(), stream.free() or stream.me_too()
StreamCall(rtype) ==
  /\ Ready
  /\ \E o \in stream_request(rtype, stream) :
       /\ stream' = o.available
       /\ last' = Call(rtype, NO_BLOCK,
                       [block |-> o.block, result |-> o.result, before |-> stream], "")
  /\ UNCHANGED <<blocks, pages, available, threshold, sim, dp, simulation>>

Policies == {"FirstFit", "BestFit"}

\* Allocator.format_rtype
format_rtype(rtype) ==
  CASE rtype = "ALLOCATE" -> "Allocate"
    [] rtype = "FREE" -> "Free"
    [] rtype = "ME_TOO" -> "MeToo"

\* Allocator.print_result: the lines written to std_out, none when it is None
print_result(request, result, std_out) ==
  IF std_out
  THEN <<<<"Request", format_rtype(request.rtype), request.block, result.pages>>,
         IF result.success
         THEN <<"Result", "SuccessfulRequest", result.block, result.start,
                result.pages, result.before, result.after>>
         ELSE <<"Result", "FailedRequest">>>>
  ELSE <<>>

\* __call__ whose effect on the pool is lost when there is no sink
allocator_call_when_heard(policy, pg, av, request, std_out) ==
  LET c == call(policy, pg, av, request)
  IN [raised |-> c.raised, result |-> c.result,
      available |-> IF std_out THEN c.available ELSE av,
      printed |-> IF c.raised = "" THEN print_result(request, c.result, std_out)
                  ELSE <<>>]

\* Allocator.__call__: call, then print_result
allocator_call(policy, pg, av, request, std_out) ==
  LET c == call(policy, pg, av, request)
  IN [raised |-> c.raised, result |-> c.result, available |-> c.available,
      printed |-> IF c.raised = "" THEN print_result(request, c.result, std_out)
                  ELSE <<>>]

\* Allocator.__call__ of an allocator whose std_out is set or None
AllocatorCall(policy, request, std_out) ==
  /\ Ready
  /\ \E c \in {allocator_call(policy, pages, available, request, std_out)} :
       /\ available' = c.available
       /\ last' = [Call(policy, request, c.result, c.raised)
                     EXCEPT !.std_out = std_out, !.printed = c.printed]
  /\ UNCHANGED <<blocks, pages, threshold, stream, sim, dp, simulation>>

Next ==
  \/ \E b \in Blocks : Allocate(b)
  \/ \E b \in Blocks : Free(b)
  \/ Defragment
  \/ Reset
  \/ \E b \in Blocks : FirstFit(b)
  \/ \E b \in Blocks : BestFit(b)
  \/ \E as_pages \in BOOLEAN : Fragmented(as_pages)
  \/ Contiguous
  \/ \E b \in Blocks : GetPageAddress(b)
  \/ MemFragmented
  \/ Return

Spec == Init /\ [][Next]_vars

\* a MeToo step: sample_request draws me_too only when the pool is neither
\* all free nor all allocated; the pair me_too returns is the request's block
MeToo(policy) ==
  /\ \E i \in Blocks : available[i]
  /\ \E i \in Blocks : ~available[i]
  /\ \E block \in me_too(available) :
       \E std_out \in BOOLEAN :
         AllocatorCall(policy, Request("ME_TOO", block), std_out)

NextAlloc ==
  \/ \E policy \in Policies : \E request \in Requests(blocks) :
       \E std_out \in BOOLEAN : AllocatorCall(policy, request, std_out)
  \/ \E policy \in Policies : MeToo(policy)
  \/ Return

InitAlloc == Construct(MaxAllocBlocks)

SpecAlloc == InitAlloc /\ [][NextAlloc]_vars

\* the request generator called on its own
NextStream ==
  \/ \E rtype \in RequestTypes : StreamCall(rtype)
  \/ Return

SpecStream == InitAlloc /\ [][NextStream]_vars

\* a pool, its defragmentor, and the calls that fragment the pool
NextDefrag ==
  \/ \E value \in Thresholds : NewThresholdDefragmentor(value)
  \/ DefragmentorCall
  \/ \E b \in Blocks : Allocate(b)
  \/ \E b \in Blocks : Free(b)
  \/ Return

SpecDefrag == InitAlloc /\ [][NextDefrag]_vars

\* ------------------------------------------------------ simulation.Simulator
\* the request the allocator is handed for what the generator sampled
as_request(o) == Request(o.rtype, o.block)

\* the defragmentor attribute of a Simulator: None or a ThresholdDefragmentor
SimThresholds == {NoDefragmentor, DefaultThreshold}

\* a pool of at most MaxSimBlocks blocks, a generator for as many blocks, and
\* the defragmentor, if any, that the Simulator will be built with
InitSim ==
  /\ blocks \in 1 .. MaxSimBlocks
  /\ pages \in [0 .. blocks - 1 -> PageLow .. MaxPage]
  /\ available = [i \in 0 .. blocks - 1 |-> TRUE]
  /\ threshold \in SimThresholds
  /\ stream = [i \in 0 .. blocks - 1 |-> TRUE]
  /\ sim = NoRun
  /\ dp = NoTable
  /\ simulation = NoSimulation
  /\ last = NoCall(pages, available)

\* Simulator(...).run(steps): the recorder is cleared and the loop entered
Run(steps, policy, recorder) ==
  /\ sim.pc = "idle"
  /\ sim' = [NoRun EXCEPT !.pc = "take", !.steps = steps, !.policy = policy,
                          !.recorder = recorder]
  /\ UNCHANGED <<blocks, pages, available, threshold, stream, last, dp, simulation>>

\* zip(range(steps), self.stream): range is asked first, then the stream
SimTake ==
  /\ sim.pc = "take"
  /\ sim.i < sim.steps
  /\ \E rtype \in sample_request(stream) :
       \E o \in stream_request(rtype, stream) :
         /\ stream' = o.available
         /\ sim' = [sim EXCEPT !.request = as_request(o),
                               !.taken = @ + 1,
                               !.pc = IF sim.recorder THEN "record" ELSE "allocate"]
  /\ UNCHANGED <<blocks, pages, available, threshold, last, dp, simulation>>

\* range(steps) is exhausted: the loop ends without asking the stream
SimStop ==
  /\ sim.pc = "take"
  /\ sim.i >= sim.steps
  /\ sim' = [sim EXCEPT !.pc = "done"]
  /\ UNCHANGED <<blocks, pages, available, threshold, stream, last, dp, simulation>>

\* self.recorder.record(): one line appended to the recorder's file
SimRecord ==
  /\ sim.pc = "record"
  /\ sim' = [sim EXCEPT !.recorded = @ + 1, !.pc = "allocate"]
  /\ UNCHANGED <<blocks, pages, available, threshold, stream, last, dp, simulation>>

\* self.allocator(request); an exception of the allocator ends run()
SimAllocate ==
  /\ sim.pc = "allocate"
  /\ \E c \in {allocator_call(sim.policy, pages, available, sim.request, FALSE)} :
       /\ available' = c.available
       /\ last' = Call(sim.policy, sim.request, c.result, c.raised)
       /\ sim' = IF c.raised # ""
                 THEN [sim EXCEPT !.pc = "raised"]
                 ELSE IF threshold # NoDefragmentor
                 THEN [sim EXCEPT !.allocated = @ + 1, !.pc = "defragment"]
                 ELSE [sim EXCEPT !.allocated = @ + 1, !.i = @ + 1, !.pc = "take"]
  /\ UNCHANGED <<blocks, pages, threshold, stream, dp, simulation>>

\* self.defragmentor(), the last statement of the loop body
SimDefragment ==
  /\ sim.pc = "defragment"
  /\ IF reaches(fragmented(pages, available, FALSE), threshold)
     THEN /\ available' = defragment_available(available)
          /\ pages' = defragment_pages(pages, available)
     ELSE UNCHANGED <<pages, available>>
  /\ last' = Call("defragmentor", threshold, NO_BLOCK, "")
  /\ sim' = [sim EXCEPT !.defragmented = @ + 1, !.i = @ + 1, !.pc = "take"]
  /\ UNCHANGED <<blocks, threshold, stream, dp, simulation>>

NextSim ==
  \/ \E steps \in 0 .. MaxSteps : \E policy \in Policies : \E recorder \in BOOLEAN :
       Run(steps, policy, recorder)
  \/ SimTake
  \/ SimStop
  \/ SimRecord
  \/ SimAllocate
  \/ SimDefragment

SpecSim == InitSim /\ [][NextSim]_vars

\* ------------------------------------------- a pool that argsort partitions
\* the smallest pool whose argsort goes through a quicksort partition
BigBlocks == SMALL_QUICKSORT + 2

\* its page counts, all different so that a reordering shows
BigPages == [i \in 0 .. BigBlocks - 1 |-> PageLow + i]

InitBig ==
  /\ blocks = BigBlocks
  /\ pages = BigPages
  /\ available = [i \in 0 .. blocks - 1 |-> TRUE]
  /\ threshold = NoDefragmentor
  /\ stream = [i \in 0 .. blocks - 1 |-> TRUE]
  /\ sim = NoRun
  /\ dp = NoTable
  /\ simulation = NoSimulation
  /\ last = NoCall(pages, available)

\* allocate as long as fewer than MaxBigAllocated blocks are allocated
AllocateBig(b) ==
  /\ num_blocks_allocated(available) < MaxBigAllocated
  /\ available[b]
  /\ Allocate(b)

NextBig ==
  \/ \E b \in Blocks : AllocateBig(b)
  \/ Defragment
  \/ Return

SpecBig == InitBig /\ [][NextBig]_vars

\* ------------------------------------------------- vocabulary of the claims
\* "a block is free", "a run of index-adjacent free blocks", "the sum of page
\* sizes": stated over the arrays directly, not through the code's helpers
FreeSet(av) == {i \in DOMAIN av : av[i]}

AllFree(av, lo, hi) == \A i \in lo .. hi : av[i]

\* the maximal run of free blocks around a free block b: <<lo, hi>>
RunOf(av, b) ==
  LET lo == CHOOSE l \in DOMAIN av :
              l <= b /\ AllFree(av, l, b) /\ (l - 1 \in DOMAIN av => ~av[l - 1])
      hi == CHOOSE h \in DOMAIN av :
              h >= b /\ AllFree(av, b, h) /\ (h + 1 \in DOMAIN av => ~av[h + 1])
  IN <<lo, hi>>

RunLengths(av) == {RunOf(av, b)[2] - RunOf(av, b)[1] + 1 : b \in FreeSet(av)}

MaxRun(av) == CHOOSE m \in RunLengths(av) : \A k \in RunLengths(av) : k <= m

NumRuns(av) == Cardinality({RunOf(av, b) : b \in FreeSet(av)})

RECURSIVE PageSum(_, _, _)
PageSum(pg, lo, hi) == IF lo > hi THEN 0 ELSE pg[lo] + PageSum(pg, lo + 1, hi)

\* equality and order of exact quotients <<n, d>> with d > 0
RatEq(a, b) == a[1] * b[2] = b[1] * a[2]

InUnitRange(v) == v[2] > 0 /\ 0 <= v[1] /\ v[1] < v[2]

\* the free blocks that are large enough for the page size of block b
Qualifying(pg, av, b) == {i \in DOMAIN pg : av[i] /\ pg[i] >= pg[b]}

Lowest(S) == CHOOSE i \in S : \A j \in S : i <= j

\* ------------------------------------------------------------------ C1
\* C1: in every pool state reached by allocate, free, defragment and reset
\* calls, num_blocks_free + num_blocks_allocated equals the block count fixed
\* at construction.
C1_FreePlusAllocatedIsN ==
  /\ num_blocks_free(available) + num_blocks_allocated(available) = blocks
  /\ num_blocks_free(available) = Cardinality(FreeSet(available))
  /\ DOMAIN pages = 0 .. blocks - 1

C1_Witness ==
  /\ last.op = "defragment"
  /\ num_blocks_free(available) > 0
  /\ num_blocks_allocated(available) > 0
  /\ available # last.available

\* ------------------------------------------------------------------ C2
\* C2: fragmented() and fragmented(as_pages=True) return a value v with
\* 0 <= v < 1 in every reachable pool state, also when no block is free and
\* when every block is free.
C2_FragmentedInUnitRange ==
  last.op = "fragmented" => InUnitRange(last.val)

C2_Witness ==
  /\ last.op = "fragmented"
  /\ last.arg = TRUE
  /\ FreeSet(available) = {}
  /\ InUnitRange(last.val)

\* ------------------------------------------------------------------ C3
\* C3: fragmented() is 0 when no block is free and otherwise
\* (num_free - max_run) / num_free with max_run the length of the longest
\* maximal run of free blocks; it is 0 when the free blocks form one run, and
\* 2/3 for available = [T,F,T,F,T].
C3_FragmentedValue ==
  (last.op = "fragmented" /\ last.arg = FALSE) =>
    LET n == Cardinality(FreeSet(available))
    IN /\ n = 0 => RatEq(last.val, <<0, 1>>)
       /\ n > 0 => RatEq(last.val, <<n - MaxRun(available), n>>)
       /\ NumRuns(available) = 1 => last.val[1] = 0
       /\ available = ToArray(<<TRUE, FALSE, TRUE, FALSE, TRUE>>)
            => RatEq(last.val, <<2, 3>>)

C3_Witness ==
  /\ last.op = "fragmented"
  /\ last.arg = FALSE
  /\ available = ToArray(<<TRUE, FALSE, TRUE, FALSE, TRUE>>)
  /\ RatEq(last.val, <<2, 3>>)

\* ------------------------------------------------------------------ C4
\* C4: first_fit(b) returns the lowest-indexed free block whose page size is
\* >= the page size of b, none when no free block qualifies, leaves the pool
\* unchanged, and returns the same result when called again.
C4_FirstFitLowestQualifying ==
  last.op = "first_fit" =>
    LET Q == Qualifying(last.pages, last.available, last.arg)
    IN /\ Q = {} => last.val = NO_BLOCK
       /\ Q # {} => last.val = Lowest(Q)
       /\ pages = last.pages
       /\ available = last.available
       /\ first_fit(pages, available, last.arg) = last.val

C4_Witness ==
  /\ last.op = "first_fit"
  /\ last.val # NO_BLOCK
  /\ last.val < last.arg
  /\ \E i \in 0 .. last.val - 1 : available[i] /\ pages[i] < pages[last.arg]
  /\ \E i \in last.val + 1 .. blocks - 1 : available[i] /\ pages[i] >= pages[last.arg]

\* ------------------------------------------------------------------ C5
\* C5: when some free block has page size >= the target, best_fit returns a
\* free block whose page size is >= the target and is the least page size
\* among the free blocks that are >= the target.
C5_BestFitTightest ==
  (last.op = "best_fit" /\ Qualifying(pages, available, last.arg) # {}) =>
    LET Q == Qualifying(pages, available, last.arg)
    IN /\ last.val \in Q
       /\ \A i \in Q : pages[last.val] <= pages[i]

C5_Witness ==
  /\ last.op = "best_fit"
  /\ last.val \in Qualifying(pages, available, last.arg)
  /\ \E i \in Qualifying(pages, available, last.arg) :
       i < last.val /\ pages[i] > pages[last.val]
  /\ \E i \in FreeSet(available) : pages[i] < pages[last.arg]

\* ------------------------------------------------------------------ C6
\* C6: when several free blocks share the smallest qualifying page size,
\* best_fit returns the one with the lowest index.
C6_BestFitTieLowestIndex ==
  (last.op = "best_fit" /\ Qualifying(pages, available, last.arg) # {}) =>
    LET Q == Qualifying(pages, available, last.arg)
        least == {i \in Q : \A j \in Q : pages[i] <= pages[j]}
    IN last.val = Lowest(least)

C6_Witness ==
  /\ last.op = "best_fit"
  /\ LET Q == Qualifying(pages, available, last.arg)
         least == {i \in Q : \A j \in Q : pages[i] <= pages[j]}
     IN /\ Cardinality(least) >= 2
        /\ last.val = Lowest(least)
        /\ \E i \in Q : i < last.val

\* ------------------------------------------------------------------ C7
\* C7: when no free block has page size >= the target (for example when every
\* block is allocated), best_fit returns none and never a block index.
C7_BestFitNoneWhenNothingFits ==
  (last.op = "best_fit" /\ Qualifying(pages, available, last.arg) = {}) =>
    last.val = NO_BLOCK

\* ------------------------------------------------------------------ C9
\* C9: allocate(b) on a free block b returns before = the page sum of the
\* maximal run of free blocks containing b, and after = (page sum of the run
\* left of b, page sum of the run right of b) when the run has more than one
\* block, none when the run is {b}; pages [5,10,5,20] all free, allocate(1)
\* gives before = 40 and after = (5, 25).
C9_AllocateRegionSizes ==
  (last.op = "allocate" /\ last.available[last.arg]) =>
    LET b == last.arg
        run == RunOf(last.available, b)
    IN /\ last.raised = ""
       /\ last.val[1] = PageSum(last.pages, run[1], run[2])
       /\ run[1] = run[2] => last.val[2] = NoPages
       /\ run[1] < run[2] =>
            last.val[2] = <<PageSum(last.pages, run[1], b - 1),
                            PageSum(last.pages, b + 1, run[2])>>
       /\ (/\ last.pages = ToArray(<<5, 10, 5, 20>>)
           /\ FreeSet(last.available) = 0 .. 3
           /\ b = 1) => last.val = <<40, <<5, 25>>>>

C9_Witness ==
  /\ last.op = "allocate"
  /\ last.arg = 1
  /\ last.pages = ToArray(<<5, 10, 5, 20>>)
  /\ FreeSet(last.available) = 0 .. 3
  /\ last.val = <<40, <<5, 25>>>>
  /\ ~available[1]

\* ------------------------------------------------------------------ C10
\* C10: allocate(b) on a block that is already allocated reports a failure to
\* the caller instead of returning region sizes of some free region, and
\* leaves available and pages unchanged.
C10_AllocateAllocatedFails ==
  (last.op = "allocate" /\ ~last.available[last.arg]) =>
    /\ last.raised # ""
    /\ available = last.available
    /\ pages = last.pages

\* ------------------------------------------------------------------ C8
\* C8: when an Allocate request reaches FirstFit or BestFit and no free block
\* qualifies, the allocator returns a Result with success = false, does not
\* throw, and leaves available and pages as they were.
C8_NoFitIsAFailedResult ==
  (/\ last.op \in Policies
   /\ last.arg.rtype = "ALLOCATE"
   /\ Qualifying(last.pages, last.available, last.arg.block) = {}) =>
    /\ last.raised = ""
    /\ last.val.success = FALSE
    /\ available = last.available
    /\ pages = last.pages

\* the same blocks in another order: each (page size, availability) pair
\* occurs as often in one pool as in the other
SamePairs(pg1, av1, pg2, av2) ==
  /\ DOMAIN pg1 = DOMAIN pg2
  /\ \A p \in {pg1[i] : i \in DOMAIN pg1} \cup {pg2[i] : i \in DOMAIN pg2} :
       \A a \in BOOLEAN :
         Cardinality({i \in DOMAIN pg1 : pg1[i] = p /\ av1[i] = a})
           = Cardinality({i \in DOMAIN pg2 : pg2[i] = p /\ av2[i] = a})

PoolOps == {"allocate", "free", "defragment", "reset", "first_fit", "best_fit",
            "fragmented", "contiguous", "get_page_address",
            "memory.fragmented"}

\* ------------------------------------------------------------------ C11
\* C11: allocate(b) on a free block b changes available[b] from true to false
\* and nothing else; free(b) changes only available[b]; page sizes are changed
\* by no operation other than defragment's reordering.
C11_AllocateFreeFrame ==
  /\ (last.op = "allocate" /\ last.available[last.arg]) =>
       /\ available = [last.available EXCEPT ![last.arg] = FALSE]
       /\ pages = last.pages
  /\ last.op = "free" =>
       /\ \A i \in Blocks : i # last.arg => available[i] = last.available[i]
       /\ pages = last.pages
  /\ (last.op \in PoolOps /\ last.op # "defragment") => pages = last.pages
  /\ last.op = "defragment" =>
       SamePairs(pages, available, last.pages, last.available)

C11_Witness ==
  /\ last.op = "allocate"
  /\ last.available[last.arg]
  /\ ~available[last.arg]
  /\ \E i \in Blocks : i < last.arg /\ available[i]
  /\ \E i \in Blocks : i > last.arg /\ available[i]
  /\ \E i \in Blocks : i # last.arg /\ ~available[i]

\* ------------------------------------------------------------------ C12
\* C12: free(b) sets available[b] to true whether or not b was allocated,
\* signals no error on an already-free block, and is idempotent: a second
\* free(b) leaves the pool as the first one left it.
C12_FreeIdempotent ==
  last.op = "free" =>
    /\ last.raised = ""
    /\ available[last.arg]
    /\ last.available[last.arg] => available = last.available
    /\ free(available, last.arg) = available
    /\ pages = last.pages

C12_Witness ==
  /\ last.op = "free"
  /\ last.available[last.arg]
  /\ available = last.available
  /\ \E i \in Blocks : ~available[i]

\* the page sizes of the blocks whose availability is a, in index order
RECURSIVE PagesInOrder(_, _, _, _)
PagesInOrder(pg, av, a, i) ==
  IF i \notin DOMAIN pg THEN <<>>
  ELSE (IF av[i] = a THEN <<pg[i]>> ELSE <<>>) \o PagesInOrder(pg, av, a, i + 1)

\* all blocks of one availability value precede all blocks of the other
Grouped(av) ==
  \A i, j, k \in DOMAIN av : (i < j /\ j < k) => (av[i] = av[j] \/ av[j] = av[k])

\* ------------------------------------------------------------------ C13
\* C13: defragment() is a stable partition: one permutation is applied to
\* available and pages (every block keeps its page size and availability, N
\* is unchanged), afterwards all blocks of one availability value precede all
\* blocks of the other, and the free blocks among themselves and the
\* allocated blocks among themselves keep their relative order.
C13_DefragmentStablePartition ==
  last.op = "defragment" =>
    /\ DOMAIN available = 0 .. blocks - 1
    /\ SamePairs(pages, available, last.pages, last.available)
    /\ Grouped(available)
    /\ \A a \in BOOLEAN :
         PagesInOrder(pages, available, a, 0)
           = PagesInOrder(last.pages, last.available, a, 0)

\* ------------------------------------------------------------------ C14
\* C14: calling defragment() again right after a defragment() leaves available
\* and pages as the first call left them.
C14_DefragmentIdempotent ==
  last.op = "defragment" =>
    /\ defragment_available(available) = available
    /\ defragment_pages(pages, available) = pages

\* the block-count fragmentation of a pool, from the runs of free blocks
Fragmentation(av) ==
  IF FreeSet(av) = {} THEN <<0, 1>>
  ELSE <<Cardinality(FreeSet(av)) - MaxRun(av), Cardinality(FreeSet(av))>>

\* ------------------------------------------------------------------ C15
\* C15: an invocation of ThresholdDefragmentor defragments the pool if and
\* only if the block-count fragmented() of the current pool is >= the
\* threshold, and leaves available and pages unchanged when it is below; the
\* decision depends on the current pool state only.
C15_DefragmentIffAtThreshold ==
  last.op = "defragmentor" =>
    LET f == Fragmentation(last.available)
        th == last.arg
    IN /\ f[1] * th[2] >= th[1] * f[2] =>
            /\ available = defragment_available(last.available)
            /\ pages = defragment_pages(last.pages, last.available)
            /\ Grouped(available)
       /\ f[1] * th[2] < th[1] * f[2] =>
            /\ available = last.available
            /\ pages = last.pages

C15_Witness ==
  /\ last.op = "defragmentor"
  /\ last.arg = DefaultThreshold
  /\ Fragmentation(last.available) = <<1, 2>>
  /\ available # last.available
  /\ Grouped(available)

\* ------------------------------------------------------------------ C16
\* C16: constructing a ThresholdDefragmentor with a threshold outside [0, 1]
\* is rejected with an error and no defragmentor is created; the thresholds 0
\* and 1 are accepted.
C16_ThresholdValidated ==
  last.op = "ThresholdDefragmentor" =>
    LET n == last.arg[1]
        d == last.arg[2]
    IN /\ (n < 0 \/ n > d) => (last.raised = "ValueError" /\ threshold = NoDefragmentor)
       /\ (0 <= n /\ n <= d) => (last.raised = "" /\ threshold = last.arg)
       /\ last.arg \in {<<0, 1>>, <<1, 1>>} => threshold = last.arg

C16_Witness ==
  /\ last.op = "ThresholdDefragmentor"
  /\ last.arg = <<3, 2>>
  /\ last.raised = "ValueError"
  /\ threshold = NoDefragmentor

\* ------------------------------------------------------------------ C17
\* C17: with at least one free block, contiguous() partitions the ascending
\* free indices into maximal runs of adjacent indices, in ascending order of
\* their start: every free index is in exactly one run, a run holds free
\* consecutive indices, and no two runs are adjacent; for
\* available = [T,F,T,F,T] the result is {0},{2},{4}.
C17_ContiguousMaximalRuns ==
  (last.op = "contiguous" /\ FreeSet(last.available) # {}) =>
    LET c == last.val
        Holds(k, b) == \E j \in 1 .. Len(c[k]) : c[k][j] = b
    IN /\ \A b \in FreeSet(last.available) :
            Cardinality({k \in 1 .. Len(c) : Holds(k, b)}) = 1
       /\ \A k \in 1 .. Len(c) :
            /\ Len(c[k]) > 0
            /\ \A j \in 1 .. Len(c[k]) : c[k][j] \in FreeSet(last.available)
            /\ \A j \in 1 .. Len(c[k]) - 1 : c[k][j + 1] = c[k][j] + 1
       /\ \A k \in 1 .. Len(c) - 1 : c[k + 1][1] > c[k][Len(c[k])] + 1
       /\ Len(c) = NumRuns(last.available)
       /\ last.available = [i \in 0 .. 4 |-> i \in {0, 2, 4}] =>
            c = <<<<0>>, <<2>>, <<4>>>>

C17_Witness ==
  /\ last.op = "contiguous"
  /\ last.available = [i \in 0 .. 4 |-> i \in {0, 2, 4}]
  /\ Len(last.val) = 3

\* ------------------------------------------------------------------ C18
\* C18: when no block of the pool is free, contiguous() returns an empty
\* collection of regions (zero regions), not a collection that holds one
\* empty region.
C18_ContiguousEmptyWhenNoneFree ==
  (last.op = "contiguous" /\ FreeSet(last.available) = {}) => Len(last.val) = 0

\* ------------------------------------------------------------------ C19
\* C19: for every pool and every block b in [0, N), get_page_address(b) is the
\* sum of the page sizes of the blocks with index < b: 0 for b = 0, pages[0]
\* for b = 1.
C19_PageAddressIsSumBefore ==
  last.op = "get_page_address" => last.val = PageSum(last.pages, 0, last.arg - 1)

\* ------------------------------------------------------------------ C20
\* C20: for a MeToo request whose pair the generator's me_too emitted, the
\* allocator runs its fit policy with the candidate block (the free block that
\* is to be allocated) as the target, taken as the first element of the pair;
\* the reference block (the one already allocated) is never the target.
C20_MeTooTargetsCandidate ==
  (/\ last.op \in Policies
   /\ last.arg.rtype = "ME_TOO"
   /\ last.arg.block \in me_too(last.available)) =>
    LET candidate == CHOOSE x \in {last.arg.block[1], last.arg.block[2]} :
                       last.available[x]
        c == call(last.op, last.pages, last.available,
                  Request("ALLOCATE", candidate))
    IN /\ last.arg.block[1] = candidate
       /\ last.raised = c.raised
       /\ last.val = c.result
       /\ available = c.available

\* ------------------------------------------------------------------ C21
\* C21: for a Free(block) request the allocator calls free on exactly that
\* block, with no fit selection, and the Result has start, before and after
\* absent (none) and block equal to the freed block.
C21_FreeRequestFreesThatBlock ==
  (last.op \in Policies /\ last.arg.rtype = "FREE") =>
    /\ last.raised = ""
    /\ available = [last.available EXCEPT ![last.arg.block] = TRUE]
    /\ pages = last.pages
    /\ last.val.block = last.arg.block
    /\ last.val.start = NO_BLOCK
    /\ last.val.before = NO_BLOCK
    /\ last.val.after = NoPages

C21_Witness ==
  /\ last.op = "BestFit"
  /\ last.arg.rtype = "FREE"
  /\ ~last.available[last.arg.block]
  /\ available[last.arg.block]
  /\ \E i \in Blocks : ~available[i]

\* ------------------------------------------------------------------ C22
\* C22: from any reachable pool state, reset() makes every block free and
\* leaves N and pages unchanged: sizes are not resampled and the order that
\* earlier defragment calls produced is kept.
C22_ResetFreesAllKeepsPages ==
  last.op = "reset" =>
    /\ DOMAIN available = 0 .. blocks - 1
    /\ \A i \in Blocks : available[i]
    /\ DOMAIN last.pages = 0 .. blocks - 1
    /\ pages = last.pages

C22_Witness ==
  /\ last.op = "reset"
  /\ \E i \in Blocks : ~last.available[i]
  /\ \E i \in Blocks : last.available[i]
  /\ \A i \in Blocks : available[i]

\* ------------------------------------------------------------------ C27
\* C27: in the request generator, over any sequence of requests, allocate
\* marks only a block that was free as allocated, free marks only a block that
\* was allocated as free, me_too marks its to-allocate block allocated only
\* when that block was free and its reference block is allocated, and a
\* request whose result is False leaves the generator's array unchanged.
C27_GeneratorMarksConsistently ==
  last.op \in RequestTypes =>
    LET before == last.val.before
        block == last.val.block
    IN /\ ~last.val.result => stream = before
       /\ (last.op = "ALLOCATE" /\ last.val.result) =>
            /\ block \in DOMAIN before /\ before[block]
            /\ stream = [before EXCEPT ![block] = FALSE]
       /\ (last.op = "FREE" /\ last.val.result) =>
            /\ block \in DOMAIN before /\ ~before[block]
            /\ stream = [before EXCEPT ![block] = TRUE]
       /\ (last.op = "ME_TOO" /\ last.val.result) =>
            /\ block[1] \in DOMAIN before /\ ~before[block[1]]
            /\ block[2] \in DOMAIN before /\ before[block[2]]
            /\ stream = [before EXCEPT ![block[2]] = FALSE]

C27_Witness ==
  /\ last.op = "ME_TOO"
  /\ last.val.result
  /\ stream # last.val.before
  /\ \E i \in Blocks : stream[i]

\* ------------------------------------------------------------------ C24
\* C24: the observation sink is purely observational: on the same pool and
\* the same request, the allocator with std_out set and the allocator with
\* std_out = None end in the same pool state with the same Result (or the
\* same exception), hence after every step of a request sequence.
C24_SinkIsObservational ==
  last.op \in Policies =>
    LET other == allocator_call(last.op, last.pages, last.available, last.arg,
                                ~last.std_out)
    IN /\ last.raised = other.raised
       /\ last.val = other.result
       /\ available = other.available
       /\ pages = last.pages
       /\ last.std_out => other.printed = <<>>

C24_Witness ==
  /\ last.op \in Policies
  /\ last.std_out
  /\ Len(last.printed) = 2
  /\ last.arg.rtype = "ALLOCATE"
  /\ available # last.available

\* ------------------------------------------------------------------ C23
\* C23: Simulator.run(steps) terminates after exactly `steps` steps; each step
\* takes exactly one request from the stream and performs, in this order and
\* each exactly once, the recorder's record (if a recorder is set), the
\* allocator call, and the defragmentor call (if a defragmentor is set); no
\* step begins before the defragmentor call of the step before has completed.
C23_RunDoesExactlyStepsSteps ==
  LET done == sim.i
      rec == IF sim.recorder THEN 1 ELSE 0
      defrag == IF threshold # NoDefragmentor THEN 1 ELSE 0
  IN /\ sim.pc # "raised"
     /\ sim.pc = "done" => done = sim.steps
     /\ sim.pc \in {"take", "done"} =>
          /\ sim.taken = done
          /\ sim.recorded = rec * done
          /\ sim.allocated = done
          /\ sim.defragmented = defrag * done
     /\ sim.pc = "record" =>
          /\ sim.recorder
          /\ sim.taken = done + 1
          /\ sim.recorded = done
          /\ sim.allocated = done
          /\ sim.defragmented = defrag * done
     /\ sim.pc = "allocate" =>
          /\ sim.taken = done + 1
          /\ sim.recorded = rec * (done + 1)
          /\ sim.allocated = done
          /\ sim.defragmented = defrag * done
     /\ sim.pc = "defragment" =>
          /\ threshold # NoDefragmentor
          /\ sim.taken = done + 1
          /\ sim.recorded = rec * (done + 1)
          /\ sim.allocated = done + 1
          /\ sim.defragmented = done

\* ------------------------------------------------------------------ C26
\* C26: at every step of a simulation run the block the generated request
\* names is consistent with the pool's availability: an Allocate or the MeToo
\* candidate names a block that is free in the pool, a Free names a block that
\* is allocated in the pool; equivalently the generator's available array
\* equals the pool's before every request, also after the fit policy chose
\* another block than the one named and after defragment reordered the pool.
C26_GeneratorAgreesWithPool ==
  /\ sim.pc = "take" => stream = available
  /\ sim.pc \in {"record", "allocate"} =>
       LET block == sim.request.block
       IN /\ sim.request.rtype = "ALLOCATE" => available[block]
          /\ sim.request.rtype = "FREE" => ~available[block]
          /\ sim.request.rtype = "ME_TOO" =>
               \E candidate \in {block[1], block[2]} : available[candidate]

\* ------------------------------------------------------------------ C28
\* C28: immediately after defragment() all free blocks form at most one
\* contiguous run and fragmented() is 0; hence after every invocation of a
\* ThresholdDefragmentor with threshold t > 0, and so at the start of every
\* simulation step after the first, the block-count fragmented() of the pool
\* is strictly below t.
C28_BelowThresholdAfterDefragmentor ==
  LET f == Fragmentation(available)
      Fired == reaches(Fragmentation(last.available), last.arg)
  IN /\ (last.op = "defragment" \/ (last.op = "defragmentor" /\ Fired)) =>
          /\ NumRuns(available) <= 1
          /\ f[1] = 0
          /\ RatEq(fragmented(pages, available, FALSE), <<0, 1>>)
     /\ (last.op = "defragmentor" /\ last.arg[1] > 0) =>
          f[1] * last.arg[2] < last.arg[1] * f[2]
     /\ (sim.pc = "take" /\ sim.i >= 1 /\ threshold # NoDefragmentor) =>
          (threshold[1] > 0 => f[1] * threshold[2] < threshold[1] * f[2])

C28_Witness ==
  /\ sim.pc = "take"
  /\ sim.i >= 1
  /\ last.op = "defragmentor"
  /\ last.arg = DefaultThreshold
  /\ RatEq(Fragmentation(last.available), <<1, 2>>)
  /\ available # last.available
  /\ NumRuns(available) = 1

\* ------------------------------------------------------------------ C25
\* C25: first_fit and best_fit reject a zero or negative target with an
\* InvalidSize failure instead of returning a block or none.
C25_NonPositiveTargetRejected ==
  (/\ last.op \in {"first_fit", "best_fit"}
   /\ (last.arg <= 0 \/ last.pages[last.arg] <= 0)) =>
    /\ last.raised = "InvalidSize"
    /\ last.val = NO_BLOCK

\* ------------------------------------------------------------------ C29
\* C29: for an Allocate request naming a block b that is free in the pool,
\* FirstFit and BestFit always find a fit: exactly one block f that was free
\* with pages[f] >= pages[b] becomes allocated (f need not be b; under FirstFit
\* f <= b), the number of free blocks decreases by exactly 1, no other block
\* changes, and the Result has success = true, block = f, pages = pages[f].
C29_AllocateFreeBlockFindsFit ==
  (/\ last.op \in Policies
   /\ last.arg.rtype = "ALLOCATE"
   /\ last.available[last.arg.block]) =>
    /\ last.raised = ""
    /\ pages = last.pages
    /\ Cardinality(FreeSet(available)) = Cardinality(FreeSet(last.available)) - 1
    /\ \E f \in Blocks :
         /\ last.available[f]
         /\ last.pages[f] >= last.pages[last.arg.block]
         /\ last.op = "FirstFit" => f <= last.arg.block
         /\ available = [last.available EXCEPT ![f] = FALSE]
         /\ last.val.success
         /\ last.val.block = f
         /\ last.val.pages = last.pages[f]

C29_Witness ==
  /\ last.op = "BestFit"
  /\ last.arg.rtype = "ALLOCATE"
  /\ last.available[last.arg.block]
  /\ last.val.block # last.arg.block
  /\ available[last.arg.block]
  /\ ~available[last.val.block]

\* ------------------------------------------------------------------ C30
\* C30: the two pool implementations agree on fragmentation: for every
\* availability array memory.Memory.fragmented returns the same value as
\* storage.Memory.fragmented(), in particular when the longest run of
\* allocated blocks is longer than the longest run of free blocks.
C30_FragmentedAgrees ==
  last.op = "memory.fragmented" =>
    RatEq(last.val, fragmented(last.pages, last.available, FALSE))

\* ------------------------------------------------- sim2: dining.DiningTable
\* the table sizes, the lengths of a run, the recovery times
MaxChairs == 4
MaxTime == 3
MaxRecovery == 1
\* eat_function selects i*i + 1, i*i*i + 1 or (any other value) 0
EatFunctions == {1, 2, 3}

\* DiningTable.__attrs_post_init__
DiningTable(n_chairs) ==
  [chopsticks |-> [i \in 0 .. n_chairs - 1 |-> TRUE],
   philosophers |-> [i \in 0 .. n_chairs - 1 |-> Philosopher("THINKING", 0)]]

get_left(d, p) == [on_table |-> d.chopsticks[p], idx |-> p]

get_right(d, p) ==
  LET idx == (p - 1) % Size(d.chopsticks)
  IN  [on_table |-> d.chopsticks[idx], idx |-> idx]

\* random.choice(free) in dining.py, which does not import random: the
\* name lookup raises NameError; were the name bound, one element of free
random_choice(free_idx) ==
  {[raised |-> "NameError", chop |-> -1]} \cup
  {[raised |-> "", chop |-> free_idx[i]] : i \in DOMAIN free_idx}

\* pick_up taking the left, then the right chopstick without looking at
\* the table
pick_up_unseen(d, p, any_chop) ==
  IF d.philosophers[p].left_chop = -1
  THEN {[raised |-> "", result |-> TRUE,
         dp |-> [chopsticks |-> [d.chopsticks EXCEPT ![p] = FALSE],
                 philosophers |-> [d.philosophers EXCEPT ![p].left_chop = p]]]}
  ELSE {[raised |-> "", result |-> TRUE,
         dp |-> [chopsticks |->
                   [d.chopsticks EXCEPT ![get_right(d, p).idx] = FALSE],
                 philosophers |->
                   [d.philosophers EXCEPT
                      ![p].right_chop = get_right(d, p).idx]]]}

\* the outcomes of DiningTable.pick_up(p, any_chop)
pick_up(d, p, any_chop) ==
  LET phil == d.philosophers[p]
      l == get_left(d, p)
      r == get_right(d, p)
      free_idx == Flatnonzero(d.chopsticks)
  IN  IF ~any_chop
      THEN IF l.on_table /\ phil.left_chop = -1
           THEN {[raised |-> "", result |-> TRUE,
                  dp |-> [chopsticks |-> [d.chopsticks EXCEPT ![l.idx] = FALSE],
                          philosophers |->
                            [d.philosophers EXCEPT ![p].left_chop = l.idx]]]}
           ELSE IF r.on_table /\ phil.right_chop = -1
           THEN {[raised |-> "", result |-> TRUE,
                  dp |-> [chopsticks |-> [d.chopsticks EXCEPT ![r.idx] = FALSE],
                          philosophers |->
                            [d.philosophers EXCEPT ![p].right_chop = r.idx]]]}
           ELSE {[raised |-> "", result |-> FALSE, dp |-> d]}
      ELSE IF Size(free_idx) > 0
           THEN {IF c.raised # ""
                 THEN [raised |-> c.raised, result |-> FALSE, dp |-> d]
                 ELSE [raised |-> "", result |-> TRUE,
                       dp |-> [chopsticks |->
                                 [d.chopsticks EXCEPT ![c.chop] = FALSE],
                               philosophers |->
                                 IF phil.right_chop = -1
                                 THEN [d.philosophers EXCEPT
                                         ![p].right_chop = c.chop]
                                 ELSE [d.philosophers EXCEPT
                                         ![p].left_chop = c.chop]]]
                 : c \in random_choice(free_idx)}
           ELSE {[raised |-> "", result |-> FALSE, dp |-> d]}

\* put_down that only ever lets go of the left chopstick
put_down_left_only(d, p) ==
  IF d.philosophers[p].left_chop >= 0
  THEN [result |-> TRUE,
        dp |-> [chopsticks |->
                  [d.chopsticks EXCEPT ![d.philosophers[p].left_chop] = TRUE],
                philosophers |-> [d.philosophers EXCEPT ![p].left_chop = -1]]]
  ELSE [result |-> FALSE, dp |-> d]

put_down(d, p) ==
  LET phil == d.philosophers[p]
  IN  IF phil.left_chop >= 0
      THEN [result |-> TRUE,
            dp |-> [chopsticks |->
                      [d.chopsticks EXCEPT ![phil.left_chop] = TRUE],
                    philosophers |->
                      [d.philosophers EXCEPT ![p].left_chop = -1]]]
      ELSE IF phil.right_chop >= 0
      THEN [result |-> TRUE,
            dp |-> [chopsticks |->
                      [d.chopsticks EXCEPT ![phil.right_chop] = TRUE],
                    philosophers |->
                      [d.philosophers EXCEPT ![p].right_chop = -1]]]
      ELSE [result |-> FALSE, dp |-> d]

\* ------------------------------------------------ sim2: simulation.Simulation
get_eating_time(function, i) ==
  IF function = 1 THEN i * i + 1
  ELSE IF function = 2 THEN i * i * i + 1
  ELSE 0

\* random.randint(0, 2) == 0; the None of the other rolls is falsy
get_hungry(roll) == roll = 0

check_deadlock(d) ==
  \A p \in DOMAIN d.philosophers :
    ~(d.philosophers[p].state = "THINKING" \/ d.philosophers[p].state = "EATING")

RECURSIVE put_down_all(_, _)
\* the second loop of recover_from_deadlock, from philosopher x on
put_down_all(d, x) ==
  IF x >= Size(d.philosophers) THEN d
  ELSE put_down_all(put_down(put_down(d, x).dp, x).dp, x + 1)

\* recover_from_deadlock without its put_down loop
recover_states_only(d, recovery) ==
  [chopsticks |-> d.chopsticks,
   philosophers |-> [p \in DOMAIN d.philosophers |->
                       [d.philosophers[p] EXCEPT !.state = "THINKING",
                                                 !.time = recovery]]]

recover_from_deadlock(d, recovery) ==
  put_down_all(
    [chopsticks |-> d.chopsticks,
     philosophers |-> [p \in DOMAIN d.philosophers |->
                         [d.philosophers[p] EXCEPT !.state = "THINKING",
                                                   !.time = recovery]]],
    0)

set_state(d, p, state) ==
  [d EXCEPT !.philosophers[p].state = state]

\* the outcomes of the body of the philosopher loop for philosopher phil_id
turn(d, phil_id, eat_function, hungry) ==
  LET philosopher == d.philosophers[phil_id]
      same == [raised |-> "", picked |-> "none", dp |-> d]
  IN  IF philosopher.time > 0
      THEN {[same EXCEPT !.dp.philosophers[phil_id].time = philosopher.time - 1]}
      ELSE IF philosopher.time = 0
      THEN IF philosopher.state = "THINKING"
           THEN IF hungry
                THEN {IF o.raised # ""
                      THEN [same EXCEPT !.raised = o.raised]
                      ELSE IF o.result
                      THEN [raised |-> "", picked |-> "yes",
                            dp |-> set_state(o.dp, phil_id, "WAITING")]
                      ELSE [raised |-> "", picked |-> "no", dp |-> o.dp]
                      : o \in pick_up(d, phil_id, phil_id = 3)}
                ELSE {same}
           ELSE IF philosopher.state = "EATING"
           THEN {[same EXCEPT !.dp =
                    put_down(put_down(set_state(d, phil_id, "THINKING"),
                                      phil_id).dp, phil_id).dp]}
           ELSE {IF o.raised # ""
                 THEN [same EXCEPT !.raised = o.raised]
                 ELSE IF o.result
                 THEN [raised |-> "", picked |-> "yes",
                       dp |-> [set_state(o.dp, phil_id, "EATING") EXCEPT
                                 !.philosophers[phil_id].time =
                                   get_eating_time(eat_function, phil_id)]]
                 ELSE [raised |-> "", picked |-> "no",
                       dp |-> set_state(put_down(o.dp, phil_id).dp,
                                        phil_id, "THINKING")]
                 : o \in pick_up(d, phil_id, phil_id = 3)}
      ELSE {same}

\* Simulation(n, time, recovery, eat_function).run_simulation() up to the
\* first time step; the pool of sim1 plays no part
InitDining ==
  /\ blocks = 1
  /\ pages = [i \in 0 .. 0 |-> PageLow]
  /\ available = [i \in 0 .. 0 |-> TRUE]
  /\ threshold = NoDefragmentor
  /\ stream = [i \in 0 .. 0 |-> TRUE]
  /\ sim = NoRun
  /\ last = NoCall(pages, available)
  /\ \E n \in 0 .. MaxChairs, time \in 0 .. MaxTime,
        recovery \in 0 .. MaxRecovery, eat_function \in EatFunctions :
       /\ dp = DiningTable(n)
       /\ simulation =
            [NoSimulation EXCEPT !.pc = IF time = 0 THEN "done" ELSE "run",
                                 !.n = n, !.time = time,
                                 !.recovery = recovery,
                                 !.eat_function = eat_function]

\* one pass of the body of the philosopher loop
Turn ==
  /\ simulation.pc = "run"
  /\ simulation.phil_id < Size(dp.philosophers)
  /\ \E roll \in 0 .. 2 :
       \E o \in turn(dp, simulation.phil_id, simulation.eat_function,
                     get_hungry(roll)) :
         /\ dp' = o.dp
         /\ simulation' =
              [simulation EXCEPT
                 !.pc = IF o.raised # "" THEN "raised" ELSE "run",
                 !.phil_id = IF o.raised # "" THEN @ ELSE @ + 1,
                 !.who = simulation.phil_id,
                 !.before = dp.philosophers[simulation.phil_id],
                 !.picked = o.picked,
                 !.after = IF o.raised # "" THEN o.raised ELSE "turn"]
  /\ UNCHANGED <<blocks, pages, available, threshold, stream, sim, last>>

\* the end of a time step: check_deadlock, the flag and the recovery
EndStep ==
  /\ simulation.pc = "run"
  /\ simulation.phil_id = Size(dp.philosophers)
  /\ LET found == check_deadlock(dp)
     IN  /\ dp' = IF found
                  THEN recover_from_deadlock(dp, simulation.recovery)
                  ELSE dp
         /\ simulation' =
              [simulation EXCEPT
                 !.deadlock = IF found THEN TRUE ELSE @,
                 !.t = @ + 1,
                 !.pc = IF simulation.t + 1 = simulation.time
                        THEN "done" ELSE "run",
                 !.phil_id = 0,
                 !.checked = IF found THEN "yes" ELSE "no",
                 !.after = "step"]
  /\ UNCHANGED <<blocks, pages, available, threshold, stream, sim, last>>

NextDining == Turn \/ EndStep

SpecDining == InitDining /\ [][NextDining]_vars

\* ------------------------------------------------------------ sim2 claims
\* the records (philosopher, hand) that name chopstick i
Holders(i) ==
  {h \in (DOMAIN dp.philosophers) \X {"left_chop", "right_chop"} :
     dp.philosophers[h[1]][h[2]] = i}

\* the number of chopsticks philosopher p records
Held(p) ==
  (IF dp.philosophers[p].left_chop # -1 THEN 1 ELSE 0) +
  (IF dp.philosophers[p].right_chop # -1 THEN 1 ELSE 0)

\* C31: in every reachable state chopstick i is off the table exactly when
\* one philosopher records it in left_chop or right_chop, and no chopstick
\* is recorded twice, whichever branch of pick_up took it.
C31_ChopstickHeldByExactlyOne ==
  \A i \in DOMAIN dp.chopsticks :
    Cardinality(Holders(i)) = IF dp.chopsticks[i] THEN 0 ELSE 1

\* a second pick_up has just succeeded: one philosopher holds two
\* chopsticks while another holds one
C31_Witness ==
  /\ simulation.after = "turn"
  /\ simulation.picked = "yes"
  /\ Held(simulation.who) = 2
  /\ \E q \in DOMAIN dp.philosophers : q # simulation.who /\ Held(q) = 1

\* the number of chopsticks that goes with a state
HeldIn(state) ==
  IF state = "THINKING" THEN 0 ELSE IF state = "WAITING" THEN 1 ELSE 2

\* C32: after a philosopher's turn its state fixes how many chopsticks it
\* holds (THINKING none, WAITING one, EATING two); it becomes EATING only
\* from WAITING on a successful pick_up, and holds nothing once it has
\* left EATING.
C32_StateFixesChopsticksHeld ==
  simulation.after = "turn" =>
    LET philosopher == dp.philosophers[simulation.who]
    IN  /\ Held(simulation.who) = HeldIn(philosopher.state)
        /\ (philosopher.state = "EATING" /\ simulation.before.state # "EATING")
             => (simulation.before.state = "WAITING" /\ simulation.picked = "yes")
        /\ (simulation.before.state = "EATING" /\ philosopher.state # "EATING")
             => Held(simulation.who) = 0

\* a philosopher that ate for some steps has just left EATING
C32_Witness ==
  /\ simulation.after = "turn"
  /\ simulation.before.state = "EATING"
  /\ dp.philosophers[simulation.who].state = "THINKING"
  /\ simulation.t >= 2

\* C33: when a time step ends with every philosopher WAITING, recovery has
\* run by the end of that step: every philosopher is THINKING with
\* time = recovery and holds no chopstick, and every chopstick is on the
\* table.
C33_RecoveryResetsTable ==
  (simulation.after = "step" /\ simulation.checked = "yes") =>
    /\ \A p \in DOMAIN dp.philosophers :
         dp.philosophers[p] = Philosopher("THINKING", simulation.recovery)
    /\ \A i \in DOMAIN dp.chopsticks : dp.chopsticks[i]

\* a step of a table of at least three philosophers ended in deadlock
C33_Witness ==
  /\ simulation.after = "step"
  /\ simulation.checked = "yes"
  /\ simulation.n >= 3
  /\ simulation.recovery > 0

\* C34: at the end of every time step Simulation.deadlock is True exactly
\* when check_deadlock held for the state that step reached, so it is
\* False again after a step in which the philosophers are not all WAITING.
C34_DeadlockFlagIsCurrent ==
  simulation.after = "step" =>
    (simulation.deadlock <=> simulation.checked = "yes")

====
